---- MODULE Spec2Model ----
(***************************************************************************)
(* A model of the FAT32 volume-access code of src/assignment3/vfat.c:      *)
(* boot-sector validation and geometry (vfat_init), the FAT chain walker   *)
(* (follow_fat_chain), directory decoding (vfat_readdir), path resolution  *)
(* (vfat_resolve) and the three FUSE operations.                           *)
(*                                                                         *)
(* The program state is the global vfat_info record plus the position and  *)
(* locals of the operation in progress.  The device image is an input: it  *)
(* is chosen by Init and never changes (the code opens it O_RDONLY).       *)
(*                                                                         *)
(* The module also models the scheduling class of                          *)
(* src/assignement2/dummy.c: the five run queues of one CPU and the        *)
(* per-task fields the class reads and writes.  The two programs share no  *)
(* state; each specification moves the variables of one of them and leaves *)
(* those of the other at their initial values.                             *)
(***************************************************************************)
EXTENDS Integers, Sequences, FiniteSets, TLC

VARIABLES
    dev_fat,        \* device image: the first entries of the FAT region
    dev_clusters,   \* device image: data cluster number -> directory records
    boot,           \* the boot sector of the device, vfat_info.boot once read
    mstate,         \* "start" before vfat_init, then "mounted" or "exited"
    exit_msg,       \* message of the errx()/err() that ended the program
    fat_begin,      \* vfat_info.fat_begin
    fat_size,       \* vfat_info.fat_size
    clusters_begin, \* vfat_info.clusters_begin
    clusters_size,  \* vfat_info.clusters_size
    fat_content,    \* vfat_info.fat_content: [alloc |-> BOOLEAN, entries |-> Seq]
    w_pc,           \* follow_fat_chain: "idle", "loop", "done" or "fault"
    w_start,        \* follow_fat_chain: the offset argument of the call
    w_bytes,        \* follow_fat_chain: the size argument of the call
    w_offset,       \* follow_fat_chain: local offset
    w_size,         \* follow_fat_chain: local size (a size_t, see SizeLess)
    w_calls,        \* follow_fat_chain: the callback invocations <<cluster, n>>
    w_iter,         \* follow_fat_chain: parity of the number of iterations run
    op,             \* the last completed path operation and its outcome
    queues,         \* rq->dummy.array.queues: level -> tasks, head first
    prio,           \* p->prio of every task
    static_prio,    \* p->static_prio of every task
    time_slice,     \* p->dummy_se.time_slice of every task
    aging,          \* p->dummy_se.aging of every task
    nr_running,     \* rq->nr_running
    curr,           \* rq->curr, NoTask when it is no task of the class
    need_resched,   \* the tasks whose need-resched flag is set
    passed,         \* history: task -> the tasks it was picked ahead of
    owed            \* history: task -> the tasks its expiry put it behind

volume == <<dev_fat, dev_clusters, boot, mstate, exit_msg, fat_begin, fat_size,
            clusters_begin, clusters_size, fat_content,
            w_pc, w_start, w_bytes, w_offset, w_size, w_calls, w_iter, op>>

sched == <<queues, prio, static_prio, time_slice, aging, nr_running, curr,
           need_resched, passed, owed>>

vars == <<volume, sched>>

geometry == <<fat_begin, fat_size, clusters_begin, clusters_size>>
walk == <<w_pc, w_start, w_bytes, w_offset, w_size, w_calls, w_iter>>
device == <<dev_fat, dev_clusters>>

Min(a, b) == IF a < b THEN a ELSE b

-----------------------------------------------------------------------------
(* Program constants.                                                      *)

DIRECTORY_RECORD_SIZE == 32
MIN_NB_OF_SECTORS == 65525
MAX_CLUSTER_SIZE == 32768
\* 0xAA55, the boot signature
BOOT_SIGNATURE == 43605
\* 0xFFFFFF8: a masked FAT entry at or above it ends the chain
END_OF_CHAIN == 268435448
\* 0xFFFFFFF + 1: "entry & 0xFFFFFFF" is "entry % FAT_MASK_MOD"
FAT_MASK_MOD == 268435456
\* sizeof(data->fat32.reserved2)
RESERVED2_LEN == 12

-----------------------------------------------------------------------------
(* Constants and tasks of the scheduling class.                            *)

\* sched.h: the class has five levels; the lowest of them is the priority
\* DUMMY_PRIO_UPPER_BOUND.
NBR_DUMMY_PRIO == 5
DUMMY_PRIO_UPPER_BOUND == 135

\* The time slice in ticks (100 * HZ / 1000 in the source, scaled down) and
\* the age threshold, three time slices.
DUMMY_TIMESLICE == 2
DUMMY_AGE_THRESHOLD == 3 * DUMMY_TIMESLICE

\* sysctl_sched_dummy_timeslice and sysctl_sched_dummy_age_threshold hold
\* their defaults.
get_timeslice == DUMMY_TIMESLICE
get_age_threshold == DUMMY_AGE_THRESHOLD

TaskOrder == <<"a", "b", "c">>
Tasks == {TaskOrder[i] : i \in DOMAIN TaskOrder}

\* rq->curr when it is the idle task.
NoTask == "idle"

Levels == 0..(NBR_DUMMY_PRIO - 1)

\* init_dummy_rq: every queue empty.
EmptyQueues == [i \in Levels |-> <<>>]

\* No task has been picked yet.
NothingPassed == [t \in Tasks |-> {}]

\* The run queue before any task of the class exists.
SchedIdle ==
    /\ queues = EmptyQueues
    /\ prio = [t \in Tasks |-> DUMMY_PRIO_UPPER_BOUND]
    /\ static_prio = [t \in Tasks |-> DUMMY_PRIO_UPPER_BOUND]
    /\ time_slice = [t \in Tasks |-> 0]
    /\ aging = [t \in Tasks |-> 0]
    /\ nr_running = 0
    /\ curr = NoTask
    /\ need_resched = {}
    /\ passed = NothingPassed
    /\ owed = NothingPassed

-----------------------------------------------------------------------------
(* uint32_t arithmetic.  A uint32_t is held as two 16-bit limbs <<hi, lo>>  *)
(* so that wrap-around modulo 2^32 is computed exactly.                    *)

Limb == 65536

ToU32(n) == <<(n \div Limb) % Limb, n % Limb>>

U32Add(a, b) ==
    LET lo == a[2] + b[2]
    IN  <<(a[1] + b[1] + (lo \div Limb)) % Limb, lo % Limb>>

U32Sub(a, b) ==
    LET lo == a[2] - b[2]
        borrow == IF lo < 0 THEN 1 ELSE 0
    IN  <<(a[1] - b[1] - borrow) % Limb, lo % Limb>>

\* a * k for a small k (a uint8_t promoted to int, then to unsigned)
U32Mul(a, k) ==
    LET lo == a[2] * k
    IN  <<(a[1] * k + (lo \div Limb)) % Limb, lo % Limb>>

\* a / d for 0 < d < 2^15 (schoolbook division on the limbs)
U32Div(a, d) ==
    <<a[1] \div d, ((a[1] % d) * Limb + a[2]) \div d>>

\* a < n for 0 <= n < 2^16
U32Less(a, n) == a[1] = 0 /\ a[2] < n

-----------------------------------------------------------------------------
(* Boot sector validation and initialisation.                              *)

sectors_to_bytes(b, number_of_sectors) == number_of_sectors * b.bytes_per_sector

\* dataSec / sectors_per_cluster of check_boot_validity, in uint32_t
\* arithmetic as the C operand types (uint32_t, uint16_t, uint8_t) make it.
count_clusters(data) ==
    LET dataSec == U32Sub(ToU32(data.total_sectors),
                          U32Add(ToU32(data.reserved_sectors),
                                 U32Mul(ToU32(data.sectors_per_fat), data.fat_count)))
    IN  U32Div(dataSec, data.sectors_per_cluster)

count_clusters_too_small(data) == U32Less(count_clusters(data), MIN_NB_OF_SECTORS)

\* A loop that stops one byte short of sizeof(data->fat32.reserved2).
reserved2_not_zero_short(data) ==
    \E offset \in 1..(RESERVED2_LEN - 1) : data.reserved2[offset] # 0

\* The loop over data->fat32.reserved2.
reserved2_not_zero(data) ==
    \E offset \in 1..RESERVED2_LEN : data.reserved2[offset] # 0

\* The message of the first errx() reached, or "ok" when none is.
check_boot_validity(data) ==
    IF data.bytes_per_sector \notin {512, 1024, 2048, 4096}
    THEN "Invalid number of bytes per sector. Exiting..."
    ELSE IF data.sectors_per_cluster \notin {1, 2, 4, 8, 16, 32, 64, 128}
    THEN "Invalid number of sectors per cluster. Exiting..."
    ELSE IF sectors_to_bytes(data, data.sectors_per_cluster) >= MAX_CLUSTER_SIZE
    THEN "Invalid cluster size. Exiting..."
    ELSE IF \/ data.fat_count # 2
            \/ data.root_max_entries # 0
            \/ data.total_sectors_small # 0
            \/ data.sectors_per_fat_small # 0
            \/ data.version # 0
            \/ data.signature # BOOT_SIGNATURE
    THEN "Invalid FAT32 boot sector. Exiting..."
    ELSE IF reserved2_not_zero(data)
    THEN "Reserved space of boot sector is not zero. Exiting..."
    ELSE IF count_clusters_too_small(data)
    THEN "Invalid number of sectors for FAT32. Exiting..."
    ELSE "ok"

NullFat == [alloc |-> FALSE, entries |-> <<>>]

\* read(fs, fat_content, fat_size): the FAT region of the device, fat_size
\* bytes of it, four bytes an entry.
LoadFat(size) ==
    [alloc |-> TRUE,
     entries |-> [i \in 1..Min(Len(dev_fat), size \div 4) |-> dev_fat[i]]]

\* vfat_init: open the device, read and validate the boot sector, derive the
\* geometry, allocate and read the FAT.  open_ok and alloc_ok are what open()
\* and calloc() answer.
vfat_init ==
    /\ mstate = "start"
    /\ \E open_ok \in BOOLEAN, alloc_ok \in BOOLEAN :
         LET msg == check_boot_validity(boot)
             sectors == U32Add(ToU32(boot.reserved_sectors),
                               U32Mul(ToU32(boot.sectors_per_fat), boot.fat_count))
         IN  IF ~open_ok
             THEN /\ mstate' = "exited"
                  /\ exit_msg' = "open"
                  /\ UNCHANGED <<geometry, fat_content>>
             ELSE IF msg # "ok"
             THEN /\ mstate' = "exited"
                  /\ exit_msg' = msg
                  /\ UNCHANGED <<geometry, fat_content>>
             ELSE /\ fat_begin' = sectors_to_bytes(boot, boot.reserved_sectors)
                  /\ fat_size' = sectors_to_bytes(boot, boot.sectors_per_fat)
                  /\ clusters_begin' =
                         sectors_to_bytes(boot, sectors[1] * Limb + sectors[2])
                  /\ clusters_size' = sectors_to_bytes(boot, boot.sectors_per_cluster)
                  /\ IF alloc_ok
                     THEN /\ fat_content' = LoadFat(fat_size')
                          /\ mstate' = "mounted"
                          /\ exit_msg' = ""
                     ELSE /\ fat_content' = NullFat
                          /\ mstate' = "exited"
                          /\ exit_msg' = "Could't read the FAT. Exiting..."
    /\ UNCHANGED <<sched, device, boot, walk, op>>

-----------------------------------------------------------------------------
(* Initial values shared by the specifications.                            *)

NoOp == [name |-> "none"]

Unmounted ==
    /\ mstate = "start"
    /\ exit_msg = ""
    /\ fat_begin = 0 /\ fat_size = 0 /\ clusters_begin = 0 /\ clusters_size = 0
    /\ fat_content = NullFat

WalkIdle ==
    /\ w_pc = "idle"
    /\ w_start = 0 /\ w_bytes = 0 /\ w_offset = 0 /\ w_size = 0
    /\ w_calls = <<>>
    /\ w_iter = 0

\* FAT entries 0 and 1 of a formatted volume: the media descriptor and the
\* end-of-chain marker.
ReservedFatEntries == <<268435448, 268435455>>

-----------------------------------------------------------------------------
(* SpecBoot: vfat_init on every boot sector of BootSectors.                *)

Zeros12 == [i \in 1..RESERVED2_LEN |-> 0]

Reserved2Vals ==
    {Zeros12, [Zeros12 EXCEPT ![1] = 1], [Zeros12 EXCEPT ![RESERVED2_LEN] = 255]}

\* total_sectors values around the thresholds of the cluster count: with
\* reserved_sectors = 32, sectors_per_fat = 100 and two FATs 232 sectors are
\* overhead; 65525 clusters of 1 or 8 sectors follow at 65757 and 524432.
TotalSectorsVals == {0, 100, 65756, 65757, 524431, 524432, 560232}

BootSectors ==
    [bytes_per_sector : {512, 4096, 513},
     sectors_per_cluster : {0, 1, 3, 4, 8, 64},
     reserved_sectors : {32},
     fat_count : {1, 2, 3},
     root_max_entries : {0, 1},
     total_sectors_small : {0, 1},
     sectors_per_fat_small : {0, 1},
     total_sectors : TotalSectorsVals,
     sectors_per_fat : {1, 100},
     version : {0, 1},
     root_cluster : {2},
     reserved2 : Reserved2Vals,
     signature : {BOOT_SIGNATURE, 21930}]

InitBoot ==
    /\ boot \in BootSectors
    /\ dev_fat = ReservedFatEntries
    /\ dev_clusters = <<>>
    /\ Unmounted
    /\ WalkIdle
    /\ op = NoOp
    /\ SchedIdle

NextBoot == vfat_init

SpecBoot == InitBoot /\ [][NextBoot]_vars

-----------------------------------------------------------------------------
(* The FAT chain walker.                                                   *)

\* Bounds of the model: the highest cluster number whose FAT entry varies,
\* and the number of callback invocations the log w_calls keeps.
MaxCluster == 4
MaxCalls == 5

\* A size_t that has wrapped below zero.  size -= clusters_size on a size
\* smaller than clusters_size leaves a value near 2^64; it stays above every
\* cluster size for the next 2^64 / clusters_size iterations, so one value
\* stands for all of them.
WRAPPED == -1

SizeLess(a, b) == a # WRAPPED /\ a < b

SizeSub(a, b) == IF a = WRAPPED \/ a < b THEN WRAPPED ELSE a - b

\* What an out-of-allocation read of fat_content can yield.
GarbageEntries == {2, 268435455}

\* The values vfat_info.fat_content[i] can yield.  The table holds
\* fat_size / 4 entries read from the device (those after the prefix dev_fat
\* are free, 0); calloc(fat_size, sizeof(uint32_t)) allocated fat_size
\* entries, the rest of them zero; an index past the allocation reads
\* whatever is there.
FatRead(i) ==
    IF i < Len(fat_content.entries) THEN {fat_content.entries[i + 1]}
    ELSE IF i < fat_size THEN {0}
    ELSE GarbageEntries

FatInAllocation(i) == i < fat_size

\* The entry used without masking its upper four bits.
MaskEntryNone(raw) == raw

\* entry = vfat_info.fat_content[offset] & 0xFFFFFFF
MaskEntry(raw) == raw % FAT_MASK_MOD

\* while (offset < 0xFFFFFF8)
ChainContinues(offset) == offset < END_OF_CHAIN

Log(calls, c) == IF Len(calls) < MaxCalls THEN Append(calls, c) ELSE calls

\* follow_fat_chain(offset, callback, size): entry of the function.
follow_fat_chain_call(offset, size) ==
    /\ mstate = "mounted"
    /\ op = NoOp
    /\ w_pc \in {"idle", "done"}
    /\ w_start' = offset
    /\ w_bytes' = size
    /\ w_offset' = offset
    /\ w_size' = size
    /\ w_calls' = <<>>
    /\ w_iter' = 0
    /\ w_pc' = IF fat_content.alloc THEN "loop" ELSE "done"
    /\ UNCHANGED <<sched, device, boot, mstate, exit_msg, geometry, fat_content, op>>

\* An iteration that also frees the cluster it has visited.
follow_fat_chain_step_freeing ==
    /\ w_pc = "loop"
    /\ \E raw \in FatRead(w_offset) :
         /\ w_calls' = Log(w_calls, <<w_offset, clusters_size>>)
         /\ w_iter' = 1 - w_iter
         /\ w_offset' = raw % FAT_MASK_MOD
         /\ w_pc' = IF raw % FAT_MASK_MOD < END_OF_CHAIN THEN "loop" ELSE "done"
         /\ fat_content' =
                IF w_offset < Len(fat_content.entries)
                THEN [fat_content EXCEPT !.entries[w_offset + 1] = 0]
                ELSE fat_content
    /\ UNCHANGED <<sched, device, boot, mstate, exit_msg, geometry,
                   w_start, w_bytes, w_size, op>>

\* One iteration of the do-while loop.
follow_fat_chain_step ==
    /\ w_pc = "loop"
    /\ \E raw \in FatRead(w_offset) :
         LET entry == MaskEntry(raw)
             to_read == IF SizeLess(w_size, clusters_size)
                        THEN w_size ELSE clusters_size
         IN  /\ w_calls' = Log(w_calls, <<w_offset, to_read>>)
             /\ w_size' = SizeSub(w_size, clusters_size)
             /\ w_iter' = 1 - w_iter
             /\ w_offset' = entry
             /\ w_pc' = IF ChainContinues(entry) THEN "loop" ELSE "done"
    /\ UNCHANGED <<sched, device, boot, mstate, exit_msg, geometry, fat_content,
                   w_start, w_bytes, op>>

\* The read of fat_content[offset] past the allocation faults instead.
follow_fat_chain_fault ==
    /\ w_pc = "loop"
    /\ ~FatInAllocation(w_offset)
    /\ w_pc' = "fault"
    /\ UNCHANGED <<sched, device, boot, mstate, exit_msg, geometry, fat_content,
                   w_start, w_bytes, w_offset, w_size, w_calls, w_iter, op>>

-----------------------------------------------------------------------------
(* SpecChain: follow_fat_chain on every FAT of ChainFats.                  *)

\* A boot sector check_boot_validity accepts: 512-byte sectors, one sector a
\* cluster, 512 sectors a FAT (65536 entries), 70000 clusters.
ChainBoot ==
    [bytes_per_sector |-> 512, sectors_per_cluster |-> 1,
     reserved_sectors |-> 32, fat_count |-> 2, root_max_entries |-> 0,
     total_sectors_small |-> 0, sectors_per_fat_small |-> 0,
     total_sectors |-> 71056, sectors_per_fat |-> 512, version |-> 0,
     root_cluster |-> 2, reserved2 |-> Zeros12, signature |-> BOOT_SIGNATURE]

\* FAT entry values: links to the clusters 2..MaxCluster, a free entry, the
\* bad-cluster mark 0xFFFFFF7, the lowest end-of-chain mark 0xFFFFFF8, and a
\* link and an end-of-chain mark with bits set among the upper four.
EntryVals == (2..MaxCluster) \cup {0, 268435447, 268435448, 268435459, 536870911}

ChainFats ==
    {ReservedFatEntries \o f : f \in [1..(MaxCluster - 1) -> EntryVals]}

\* Start clusters: the clusters 2..MaxCluster, cluster 0, a cluster number past
\* the table but inside the allocation, and an end-of-chain mark.
StartVals == (2..MaxCluster) \cup {0, 70000, 268435448}

SizeVals == {0, 600}

InitChain ==
    /\ boot = ChainBoot
    /\ dev_fat \in ChainFats
    /\ dev_clusters = <<>>
    /\ Unmounted
    /\ WalkIdle
    /\ op = NoOp
    /\ SchedIdle

NextChain ==
    \/ vfat_init
    \/ \E offset \in StartVals, size \in SizeVals : follow_fat_chain_call(offset, size)
    \/ follow_fat_chain_step
    \/ follow_fat_chain_fault

SpecChain == InitChain /\ [][NextChain]_vars

\* The loop is sequential code: an iteration that can run does run.
FairSpecChain == SpecChain /\ WF_vars(follow_fat_chain_step \/ follow_fat_chain_fault)

-----------------------------------------------------------------------------
(* Directory decoding.  A cluster read as a directory is a sequence of     *)
(* 32-byte records; a record is its 11 name bytes (the first of them is    *)
(* the record's first byte), its attribute byte, the two halves of its     *)
(* first cluster and its size.  A byte of a name is a one-character string, *)
(* "NUL" for 0x00 and "E5" for 0xE5.  C strings are sequences of such      *)
(* bytes without their terminator.                                         *)

\* Attribute bits of vfat.h: directory 0x10, long-name part 0x0F, volume id
\* 0x08, invalid 0x80 | 0x40 | 0x08.
VFAT_ATTR_DIR == 16
VFAT_ATTR_LFN == 15
VFAT_ATTR_VOLUME_ID == 8
VFAT_ATTR_INVAL == 200

NAMEEXT_LEN == 11

ZeroRecord ==
    [nameext |-> [i \in 1..NAMEEXT_LEN |-> "NUL"], attr |-> 0,
     cluster_hi |-> 0, cluster_lo |-> 0, size |-> 0]

\* The clusters numbered from 0.
cluster_to_bytes_from_zero(cluster_number) ==
    clusters_begin + cluster_number * clusters_size

\* cluster_to_bytes(cluster_number), in size_t arithmetic (64 bits: no
\* product of the model comes near 2^64).
cluster_to_bytes(cluster_number) ==
    clusters_begin + (cluster_number - 2) * clusters_size

\* read_cluster(buffer, cluster_number): the records the device holds there;
\* the bytes after them, like every cluster the image does not describe, are
\* zero.
read_cluster(cluster_number) ==
    IF cluster_number \in DOMAIN dev_clusters
    THEN dev_clusters[cluster_number] ELSE <<>>

\* The number of 32-byte records of the buffer uint8_t cluster[clusters_size].
ClusterRecords == clusters_size \div DIRECTORY_RECORD_SIZE

\* The buffer after read_cluster: clusters_size bytes, zero after the records
\* of the device.
ClusterBuffer(records) ==
    [k \in 1..ClusterRecords |-> IF k <= Len(records) THEN records[k] ELSE ZeroRecord]

\* A record's worth of whatever the stack holds after the buffer.
StackRecord ==
    [nameext |-> [i \in 1..NAMEEXT_LEN |-> "?"], attr |-> 0,
     cluster_hi |-> 0, cluster_lo |-> 0, size |-> 0]

\* What a read past the end of the buffer can yield: the records the stack
\* holds after it, up to the first whose first byte is 0x00.
StackAfterBuffer == {<<>>, <<StackRecord>>}

\* The record at byte offset 32 * k of a cluster buffer; buf holds the buffer
\* and the non-zero records of the stack after it.
RecordAt(buf, k) == IF k < Len(buf) THEN buf[k + 1] ELSE ZeroRecord

FirstByte(rec) == rec.nameext[1]

\* No record taken for a long-name part.
IsLfnNever(attr) == FALSE

\* (entry.attr & VFAT_ATTR_LFN) == VFAT_ATTR_LFN
IsLfn(attr) == attr % (VFAT_ATTR_LFN + 1) = VFAT_ATTR_LFN

\* entry.attr & VFAT_ATTR_DIR
IsDir(attr) == (attr \div VFAT_ATTR_DIR) % 2 = 1

\* entry.attr & VFAT_ATTR_VOLUME_ID
IsVolumeId(attr) == (attr \div VFAT_ATTR_VOLUME_ID) % 2 = 1

\* entry.attr & VFAT_ATTR_INVAL
IsInval(attr) == IsVolumeId(attr) \/ (attr \div 64) % 4 # 0

\* A C string: the bytes before the first 0x00.
RECURSIVE CStr(_)
CStr(bytes) ==
    IF bytes = <<>> \/ Head(bytes) = "NUL" THEN <<>>
    ELSE <<Head(bytes)>> \o CStr(Tail(bytes))

RECURSIVE DropSpaces(_)
DropSpaces(bytes) ==
    IF bytes = <<>> THEN <<>>
    ELSE IF Head(bytes) = " " THEN DropSpaces(Tail(bytes))
    ELSE <<Head(bytes)>> \o DropSpaces(Tail(bytes))

\* trim_filename(output, nameext): every byte of the 11 that is not a space,
\* then a terminator; the result read as a C string.
trim_filename(nameext) == CStr(DropSpaces(nameext))

\* entry.cluster_hi << 16 | entry.cluster_lo
FirstCluster(entry) == entry.cluster_hi * 65536 + entry.cluster_lo

\* The do-while loop of vfat_readdir from record k on.  acc.calls are the
\* calls of filler made so far (the record's index, the name and the st_mode
\* passed), acc.first_cluster is e->first_cluster, acc.mode is st.st_mode and
\* acc.examined is the highest record index whose first byte was read.
RECURSIVE readdir_loop(_, _, _)
readdir_loop(cluster, k, acc) ==
    LET entry == RecordAt(cluster, k)
        decoded == FirstByte(entry) # "E5" /\ ~IsLfn(entry.attr)
        mode == IF IsDir(entry.attr) THEN "S_IFDIR"
                ELSE IF IsVolumeId(entry.attr) THEN acc.mode
                ELSE IF IsInval(entry.attr) THEN acc.mode
                ELSE "S_IFREG"
        acc1 == IF decoded
                THEN [calls |-> Append(acc.calls,
                                       [index |-> k,
                                        name |-> trim_filename(entry.nameext),
                                        mode |-> mode]),
                      first_cluster |-> FirstCluster(entry),
                      mode |-> mode,
                      examined |-> k + 1]
                ELSE [acc EXCEPT !.examined = k + 1]
    IN  IF FirstByte(RecordAt(cluster, k + 1)) # "NUL"
        THEN readdir_loop(cluster, k + 1, acc1)
        ELSE acc1

\* vfat_readdir(e, filler, fillerdata): reads the cluster e->first_cluster
\* and runs the loop from offset 0.  over is what the stack holds after the
\* buffer.
vfat_readdir(first_cluster, over) ==
    readdir_loop(ClusterBuffer(read_cluster(first_cluster)) \o over, 0,
                 [calls |-> <<>>, first_cluster |-> first_cluster,
                  mode |-> "S_IFREG", examined |-> 0])

\* vfat_search_entry over the filler calls of one vfat_readdir: sd->found.
search_found(calls, name) ==
    \E i \in 1..Len(calls) : calls[i].name = name

\* The st_mode vfat_search_entry copies to *sd->st: that of the last match.
search_mode(calls, name) ==
    LET hits == {i \in 1..Len(calls) : calls[i].name = name}
    IN  calls[CHOOSE i \in hits : \A j \in hits : j <= i].mode

-----------------------------------------------------------------------------
(* Path resolution and the FUSE operations.                                *)

\* Bound of the model: the depth of recursion of vfat_resolve followed.
MaxDepth == 2

\* path_v + strspn(path_v, "/")
RECURSIVE DropLeadingSlashes(_)
DropLeadingSlashes(path) ==
    IF path # <<>> /\ Head(path) = "/" THEN DropLeadingSlashes(Tail(path))
    ELSE path

\* strchr(s, c) as an index into s: 0 for a null pointer, Len(s) + 1 for the
\* terminator (which strchr finds when c is 0x00).
StrChr(str, c) ==
    IF c = "NUL" THEN Len(str) + 1
    ELSE IF \E i \in 1..Len(str) : str[i] = c
    THEN CHOOSE i \in 1..Len(str) :
             str[i] = c /\ \A j \in 1..(i - 1) : str[j] # c
    ELSE 0

\* vfat_resolve(path, st, e).  The code calls strchr(path_v, ch) with the
\* array ch itself, so the byte searched for is the low byte of the address
\* of ch in that call's frame: seps[depth] is that byte.  The result of the
\* recursive call is dropped; e is shared with it.  deep: the recursion went
\* past MaxDepth and was not followed.  scanned: the clusters read as
\* directories, in order.  over: what the stack holds after the buffer of
\* vfat_readdir.
RECURSIVE vfat_resolve(_, _, _, _, _)
vfat_resolve(path, first_cluster, seps, depth, over) ==
    LET path_v == DropLeadingSlashes(path)
        pos == StrChr(path_v, seps[depth])
        length == IF pos # 0 THEN pos - 1 ELSE Len(path)
        name == SubSeq(path_v, 1, Min(length, Len(path_v)))
        rd == vfat_readdir(first_cluster, over)
        found == search_found(rd.calls, name)
    IN  IF found /\ pos # 0
        THEN IF depth = MaxDepth
             THEN [found |-> TRUE, first_cluster |-> rd.first_cluster, deep |-> TRUE,
                   scanned |-> <<first_cluster>>]
             ELSE LET r == vfat_resolve(SubSeq(path_v, pos, Len(path_v)),
                                        rd.first_cluster, seps, depth + 1, over)
                  IN  [found |-> TRUE, first_cluster |-> r.first_cluster,
                       deep |-> r.deep, scanned |-> <<first_cluster>> \o r.scanned]
        ELSE [found |-> found, first_cluster |-> rd.first_cluster, deep |-> FALSE,
              scanned |-> <<first_cluster>>]

NoStat == [set |-> FALSE, mode |-> "", size |-> 0]

Result(name, path, outcome, ret, first_cluster, listing, st, seps) ==
    [name |-> name, path |-> path, outcome |-> outcome, ret |-> ret,
     first_cluster |-> first_cluster, listing |-> listing, st |-> st,
     seps |-> seps]

Names(calls) == [i \in 1..Len(calls) |-> calls[i].name]

Frame == <<device, boot, geometry, fat_content, walk>>

\* A call of vfat_resolve(path, &st, &e) with e at the root directory, as
\* vfat_fuse_readdir makes it.  vfat_search_entry writes *sd->st on a match,
\* and vfat_resolve never sets sd.st: the write goes through an
\* uninitialised pointer and either lands somewhere (st_lands) or faults.
vfat_resolve_op(path, seps, st_lands, over) ==
    /\ mstate = "mounted"
    /\ op = NoOp
    /\ w_pc \in {"idle", "done"}
    /\ LET r == vfat_resolve(path, boot.root_cluster, seps, 1, over)
       IN  IF r.found /\ ~st_lands
           THEN /\ mstate' = "crashed"
                /\ op' = Result("vfat_resolve", path, "fault", 0, 0, <<>>, NoStat, seps)
                          @@ [scanned |-> r.scanned]
           ELSE /\ mstate' = mstate
                /\ op' = Result("vfat_resolve", path,
                                IF r.deep THEN "deep" ELSE "returned",
                                IF r.found THEN 1 ELSE 0,
                                r.first_cluster, <<>>, NoStat, seps)
                          @@ [scanned |-> r.scanned]
    /\ UNCHANGED <<sched, Frame, exit_msg>>

\* A call of vfat_readdir(&e, filler, buf) on one cluster, the filler
\* recording its calls.  seek: the device offset read_cluster seeks to.
vfat_readdir_op(first_cluster, over) ==
    /\ mstate = "mounted"
    /\ op = NoOp
    /\ w_pc \in {"idle", "done"}
    /\ LET rd == vfat_readdir(first_cluster, over)
       IN  op' = Result("vfat_readdir", <<>>, "returned", 0, rd.first_cluster,
                        Names(rd.calls), NoStat, <<>>)
                 @@ [cluster |-> first_cluster, calls |-> rd.calls,
                     examined |-> rd.examined,
                     seek |-> cluster_to_bytes(first_cluster)]
    /\ UNCHANGED <<sched, Frame, mstate, exit_msg>>

\* vfat_fuse_getattr(path, st)
vfat_fuse_getattr(path, over) ==
    /\ mstate = "mounted"
    /\ op = NoOp
    /\ w_pc \in {"idle", "done"}
    /\ IF path = <<"/">>
       THEN op' = Result("getattr", path, "returned", 0, 0, <<>>,
                         [set |-> TRUE, mode |-> "S_IFDIR", size |-> 0], <<>>)
       ELSE LET rd == vfat_readdir(boot.root_cluster, over)
                name == CStr(Tail(path))
            IN  op' = Result("getattr", path, "returned", 0, rd.first_cluster, <<>>,
                             IF search_found(rd.calls, name)
                             THEN [set |-> TRUE,
                                   mode |-> search_mode(rd.calls, name),
                                   size |-> 30]
                             ELSE NoStat,
                             <<>>)
    /\ UNCHANGED <<sched, Frame, mstate, exit_msg>>

DotEntries == << <<".">>, <<".", ".">> >>

\* vfat_fuse_readdir(path, buf, filler, offs, fi)
vfat_fuse_readdir(path, seps, st_lands, over) ==
    /\ mstate = "mounted"
    /\ op = NoOp
    /\ w_pc \in {"idle", "done"}
    /\ IF path = <<"/">>
       THEN /\ op' = Result("readdir", path, "returned", 0, boot.root_cluster,
                            DotEntries
                                \o Names(vfat_readdir(boot.root_cluster, over).calls),
                            NoStat, seps)
            /\ mstate' = mstate
       ELSE LET r == vfat_resolve(path, boot.root_cluster, seps, 1, over)
            IN  IF r.found /\ ~st_lands
                THEN /\ mstate' = "crashed"
                     /\ op' = Result("readdir", path, "fault", 0, 0, DotEntries,
                                     NoStat, seps)
                ELSE /\ mstate' = mstate
                     /\ op' = Result("readdir", path,
                                     IF r.deep THEN "deep" ELSE "returned", 0,
                                     r.first_cluster,
                                     IF r.found
                                     THEN DotEntries
                                          \o Names(vfat_readdir(r.first_cluster,
                                                                over).calls)
                                     ELSE DotEntries,
                                     NoStat, seps)
    /\ UNCHANGED <<sched, Frame, exit_msg>>

\* vfat_fuse_read(path, buf, size, offs, fi): assert(size > 1), then two
\* bytes whatever the path, the size and the offset.
vfat_fuse_read(path, size, offs) ==
    /\ mstate = "mounted"
    /\ op = NoOp
    /\ w_pc \in {"idle", "done"}
    /\ IF size > 1
       THEN /\ op' = Result("read", path, "returned", 2, 0, <<>>, NoStat, <<>>)
                     @@ [size |-> size, offs |-> offs, buf |-> <<"X", "Y">>]
            /\ mstate' = mstate
       ELSE /\ op' = Result("read", path, "abort", 0, 0, <<>>, NoStat, <<>>)
                     @@ [size |-> size, offs |-> offs, buf |-> <<>>]
            /\ mstate' = "crashed"
    /\ UNCHANGED <<sched, Frame, exit_msg>>

\* fuse_main's loop: the reply to the request is sent and the next request
\* awaited.
fuse_reply ==
    /\ mstate = "mounted"
    /\ op # NoOp
    /\ op' = NoOp
    /\ UNCHANGED <<sched, Frame, mstate, exit_msg>>

-----------------------------------------------------------------------------
(* SpecDir: the path operations on every directory tree of DirImages.      *)

\* Bound of the model: the number of records of the root directory.
MaxRecords == 2

Spaces(n) == [i \in 1..n |-> " "]

\* The 11 bytes of an 8.3 name.
Name83(base, ext) ==
    base \o Spaces(8 - Len(base)) \o ext \o Spaces(3 - Len(ext))

Rec(nameext, attr, cluster, size) ==
    [nameext |-> nameext, attr |-> attr,
     cluster_hi |-> cluster \div 65536, cluster_lo |-> cluster % 65536,
     size |-> size]

R_SUB == Rec(Name83(<<"S", "U", "B">>, <<>>), 16, 3, 0)
R_OTHER == Rec(Name83(<<"O", "T", "H", "E", "R">>, <<>>), 16, 4, 0)
R_NOTES == Rec(Name83(<<"N", "O", "T", "E", "S">>, <<>>), 32, 5, 10)
R_DEL == Rec(Name83(<<"E5", "L", "D">>, <<>>), 32, 4, 7)
R_LFN == Rec(Name83(<<"A", "s", "u", "b">>, <<>>), 15, 0, 0)
R_VOL == Rec(Name83(<<"M", "Y", "D", "I", "S", "K">>, <<>>), 8, 0, 0)
R_A == Rec(Name83(<<"A">>, <<"T", "X", "T">>), 32, 5, 10)
R_BIG == Rec(Name83(<<"B", "I", "G">>, <<"B", "I", "N">>), 32, 6, 600)
R_DOT == Rec(Name83(<<".">>, <<>>), 16, 3, 0)
R_DOTDOT == Rec(Name83(<<".", ".">>, <<>>), 16, 0, 0)
R_FULL == Rec(Name83(<<"F", "U", "L", "L">>, <<>>), 16, 8, 0)
R_LATE == Rec(Name83(<<"L", "A", "T", "E">>, <<>>), 32, 5, 10)

RootRecords == {R_SUB, R_OTHER, R_NOTES, R_DEL, R_LFN, R_VOL, R_FULL, ZeroRecord}

RootDirs == UNION {[1..n -> RootRecords] : n \in 0..MaxRecords}

SubDirs == {<<R_BIG, R_A>>, <<R_DOT, R_DOTDOT, R_A>>}

Alphabet == <<"h", "e", "l", "o", "f", "a", "t">>

\* Byte i of data cluster c of the device: the 10 bytes of the file at
\* cluster 5 (the rest of that cluster is zero) and the two full clusters 6
\* and 7 of the 600-byte file.
DataByte(c, i) ==
    IF c = 5 THEN (IF i < 10 THEN Alphabet[(i % 7) + 1] ELSE "NUL")
    ELSE IF c = 6 THEN Alphabet[(i % 7) + 1]
    ELSE Alphabet[((i + 3) % 5) + 1]

\* Cluster 5 read as directory records: its first 11 bytes as a name, zeros
\* after them.
DataAsRecords ==
    << [ZeroRecord EXCEPT !.nameext = [i \in 1..NAMEEXT_LEN |-> DataByte(5, i - 1)]] >>

Digits == <<"0", "1", "2", "3", "4", "5", "6", "7", "8", "9">>

\* The directory OTHER at cluster 4 holds an unused record and a long-name
\* part before its last entry.  The first cluster of the directory FULL: a record in every one of the
\* slots of a 512-byte cluster, none of them starting with 0x00.
FullCluster ==
    [k \in 1..(512 \div DIRECTORY_RECORD_SIZE) |->
        Rec(Name83(<<"F", Digits[((k - 1) \div 10) + 1], Digits[((k - 1) % 10) + 1]>>,
                   <<>>),
            32, 5, 10)]

\* The directory FULL goes on in cluster 9.
DirImages ==
    {(2 :> root @@ 3 :> sub @@ 4 :> <<R_DOT, R_DOTDOT, R_DEL, R_LFN, R_NOTES>>
        @@ 5 :> DataAsRecords @@ 8 :> FullCluster @@ 9 :> <<R_LATE>>) :
        root \in RootDirs, sub \in SubDirs}

\* The directories at clusters 2, 3 and 4 and the file at cluster 5 one
\* cluster long, the file at cluster 6 continued in cluster 7, the directory
\* at cluster 8 continued in cluster 9.
DirFat ==
    ReservedFatEntries
        \o <<268435455, 268435455, 268435455, 268435455, 7, 268435455, 9, 268435455>>

P_ROOT == <<"/">>
P_SUB == <<"/", "S", "U", "B">>
P_SLASH_SUB == <<"/">> \o P_SUB
P_OTHER == <<"/", "O", "T", "H", "E", "R">>
P_NOPE == <<"/", "N", "O", "P", "E">>
P_A == <<"/", "A", ".", "T", "X", "T">>
P_MISSING == <<"/", "M", "I", "S", "S", "I", "N", "G", ".", "T", "X", "T">>
P_BIG == <<"/", "B", "I", "G", ".", "B", "I", "N">>
P_NOTES == <<"/", "N", "O", "T", "E", "S">>
P_FULL == <<"/", "F", "U", "L", "L">>
P_LATE == <<"/", "L", "A", "T", "E">>

Paths ==
    {P_ROOT, P_SUB, P_SLASH_SUB, P_OTHER, P_NOPE, P_SUB \o P_A,
     P_SUB \o P_MISSING, P_SUB \o P_BIG, P_NOTES \o P_A, P_FULL, P_FULL \o P_LATE}

\* The bytes strchr can be made to search for: the separator, 0x00 and a
\* byte no path holds.
SepChars == {"/", "NUL", "#"}

SepChoices == [1..MaxDepth -> SepChars]

ReadSizes == {1, 2, 50, 600}

ReadOffsets == {0, 10, 500, 600}

InitDir ==
    /\ boot = ChainBoot
    /\ dev_fat = DirFat
    /\ dev_clusters \in DirImages
    /\ Unmounted
    /\ WalkIdle
    /\ op = NoOp
    /\ SchedIdle

\* The clusters vfat_readdir is called on: the directories and the file at
\* cluster 5.
ListedClusters == {2, 3, 4, 5, 8}

NextDir ==
    \/ vfat_init
    \/ \E path \in Paths, seps \in SepChoices, st_lands \in BOOLEAN,
          over \in StackAfterBuffer :
           vfat_resolve_op(path, seps, st_lands, over)
    \/ \E c \in ListedClusters, over \in StackAfterBuffer : vfat_readdir_op(c, over)
    \/ \E path \in Paths, over \in StackAfterBuffer : vfat_fuse_getattr(path, over)
    \/ \E path \in Paths, seps \in SepChoices, st_lands \in BOOLEAN,
          over \in StackAfterBuffer :
           vfat_fuse_readdir(path, seps, st_lands, over)
    \/ \E path \in Paths, size \in ReadSizes, offs \in ReadOffsets :
           vfat_fuse_read(path, size, offs)
    \/ fuse_reply

SpecDir == InitDir /\ [][NextDir]_vars

-----------------------------------------------------------------------------
(* SpecList: vfat_readdir alone on the clusters of every tree of DirImages. *)

NextList ==
    \/ vfat_init
    \/ \E c \in ListedClusters, over \in StackAfterBuffer : vfat_readdir_op(c, over)
    \/ fuse_reply

SpecList == InitDir /\ [][NextList]_vars

-----------------------------------------------------------------------------
(* SpecFrame: after vfat_init, chain walks and path operations in any      *)
(* order and number on a few of the trees of DirImages.                    *)

FrameRoots == {<<>>, <<R_SUB, R_FULL>>, <<R_NOTES, R_OTHER>>}

FrameImages ==
    {img \in DirImages : img[2] \in FrameRoots /\ img[3] = <<R_BIG, R_A>>}

\* Start clusters: the directories at clusters 2 and 8, the file at cluster
\* 6, and an end-of-chain mark.
FrameStarts == {2, 6, 8, 268435448}

InitFrame ==
    /\ boot = ChainBoot
    /\ dev_fat = DirFat
    /\ dev_clusters \in FrameImages
    /\ Unmounted
    /\ WalkIdle
    /\ op = NoOp
    /\ SchedIdle

NextFrame ==
    \/ vfat_init
    \/ \E offset \in FrameStarts, size \in SizeVals : follow_fat_chain_call(offset, size)
    \/ follow_fat_chain_step
    \/ follow_fat_chain_fault
    \/ \E path \in Paths, seps \in SepChoices, st_lands \in BOOLEAN,
          over \in StackAfterBuffer :
           vfat_resolve_op(path, seps, st_lands, over)
    \/ \E c \in ListedClusters, over \in StackAfterBuffer : vfat_readdir_op(c, over)
    \/ \E path \in Paths, over \in StackAfterBuffer : vfat_fuse_getattr(path, over)
    \/ \E path \in Paths, seps \in SepChoices, st_lands \in BOOLEAN,
          over \in StackAfterBuffer :
           vfat_fuse_readdir(path, seps, st_lands, over)
    \/ \E path \in Paths, size \in ReadSizes, offs \in ReadOffsets :
           vfat_fuse_read(path, size, offs)
    \/ fuse_reply

SpecFrame == InitFrame /\ [][NextFrame]_vars

-----------------------------------------------------------------------------
(* SpecGeom: vfat_init on every boot sector of BootSectors, then clusters   *)
(* read at the geometry derived (the device holds zeros there).            *)

GeomClusters == {2, 3, 70000}

NextGeom ==
    \/ vfat_init
    \/ \E c \in GeomClusters, over \in StackAfterBuffer : vfat_readdir_op(c, over)
    \/ fuse_reply

SpecGeom == InitBoot /\ [][NextGeom]_vars

-----------------------------------------------------------------------------
(* The scheduling class.  The functions of dummy.c are operators on a run  *)
(* queue value s, a record of the variables they read and write, so that a *)
(* function that calls others is their composition.                        *)

RunQueue ==
    [queues |-> queues, prio |-> prio, time_slice |-> time_slice,
     aging |-> aging, nr_running |-> nr_running, need_resched |-> need_resched]

\* The element of a one-element set.  { F(v) : v \in {e} } computes e once,
\* however often F uses it.
Only(S) == CHOOSE x \in S : TRUE

\* get_list_prio(p), of p->prio
get_list_prio(p_prio) ==
    NBR_DUMMY_PRIO - (DUMMY_PRIO_UPPER_BOUND - p_prio) - 1

Queued(s, p) ==
    \E i \in Levels : \E k \in 1..Len(s.queues[i]) : s.queues[i][k] = p

\* list_del_init(&dummy_se->run_list): p leaves the list it is linked on.
ListDel(qs, p) ==
    [i \in Levels |-> SelectSeq(qs[i], LAMBDA t : t # p)]

\* An insertion at the head of the queue (list_add).
enqueue_task_at_head(s, p) ==
    Only({[v EXCEPT !.queues[get_list_prio(v.prio[p])] = <<p>> \o @,
                    !.time_slice[p] = IF @ >= get_timeslice THEN 0 ELSE @,
                    !.nr_running = @ + 1] :
             v \in {s}})

\* enqueue_task_dummy(rq, p, flags): list_add_tail on the queue of p->prio,
\* the time slice reset if it was used up, inc_nr_running.
enqueue_task(s, p) ==
    Only({[v EXCEPT !.queues[get_list_prio(v.prio[p])] = Append(@, p),
                    !.time_slice[p] = IF @ >= get_timeslice THEN 0 ELSE @,
                    !.nr_running = @ + 1] :
             v \in {s}})

\* A removal from the list that leaves the count of runnable tasks as it is.
dequeue_task_no_count(s, p) ==
    [s EXCEPT !.queues = ListDel(@, p)]

\* dequeue_task_dummy(rq, p, flags)
dequeue_task(s, p) ==
    [s EXCEPT !.queues = ListDel(@, p), !.nr_running = @ - 1]

\* resched_task(p)
resched_task(s, p) == [s EXCEPT !.need_resched = @ \cup {p}]

\* get_list_prio(rq->curr); the idle task has priority MAX_PRIO = 140.
CurrListPrio(s, c) ==
    get_list_prio(IF c = NoTask THEN 140 ELSE s.prio[c])

\* check_preempt_curr_dummy(rq, p, flags) with rq->curr = c
check_preempt_curr(s, p, c) ==
    Only({IF get_list_prio(v.prio[p]) < CurrListPrio(v, c)
          THEN resched_task(v, c) ELSE v :
             v \in {s}})

\* A loop body that counts the ticks waited, starts over at the threshold and
\* promotes nothing.
AgeEntityNoPromotion(s, d, c) ==
    [s EXCEPT !.aging[d] = IF @ + 1 >= get_age_threshold THEN 0 ELSE @ + 1]

\* The body of the list_for_each_entry_safe loop of task_tick_dummy for the
\* entity of task d.
AgeEntity(s, d, c) ==
    Only({IF /\ s1.aging[d] >= get_age_threshold
             /\ s1.prio[d] > DUMMY_PRIO_UPPER_BOUND - 5 + 1
          THEN Only({check_preempt_curr(resched_task(s3, d), d, c) :
                        s3 \in {enqueue_task(
                                    dequeue_task([s1 EXCEPT !.aging[d] = 0,
                                                            !.prio[d] = @ - 1], d),
                                    d)}})
          ELSE s1 :
             s1 \in {[s EXCEPT !.aging[d] = @ + 1]}})

\* list_for_each_entry_safe over one queue: the entities that were on it
\* when the loop reached it, in order (an aged entity moves to the queue
\* above, which the outer loop has already passed).
RECURSIVE AgeQueue(_, _, _)
AgeQueue(s, members, c) ==
    Only({IF m = <<>> THEN v
          ELSE AgeQueue(AgeEntity(v, Head(m), c), Tail(m), c) :
             v \in {s}, m \in {members}})

\* for (i = 1; i < NBR_DUMMY_PRIO; i++) from level i on
RECURSIVE AgeLevels(_, _, _)
AgeLevels(s, i, c) ==
    Only({IF i >= NBR_DUMMY_PRIO THEN v
          ELSE AgeLevels(AgeQueue(v, v.queues[i], c), i + 1, c) :
             v \in {s}})

\* A tick whose expiry requeues the task at the priority it has.
task_tick_keeps_prio(s, c, c_static) ==
    Only({AgeLevels(IF s1.time_slice[c] >= get_timeslice
                    THEN resched_task(
                             enqueue_task(
                                 dequeue_task([s1 EXCEPT !.aging[c] = 0], c), c), c)
                    ELSE s1,
                    1, c) :
             s1 \in {[s EXCEPT !.time_slice[c] = @ + 1]}})

\* task_tick_dummy(rq, curr, queued) as a function of the run queue
task_tick(s, c, c_static) ==
    Only({AgeLevels(IF s1.time_slice[c] >= get_timeslice
                    THEN resched_task(
                             enqueue_task(
                                 dequeue_task([s1 EXCEPT !.prio[c] = c_static,
                                                         !.aging[c] = 0], c), c), c)
                    ELSE s1,
                    1, c) :
             s1 \in {[s EXCEPT !.time_slice[c] = @ + 1]}})

\* A search that starts at the bottom queue.
pick_next_task_dummy_from_bottom(qs) ==
    IF \A i \in Levels : qs[i] = <<>> THEN NoTask
    ELSE Head(qs[CHOOSE i \in Levels :
                    qs[i] # <<>> /\ \A j \in Levels : j > i => qs[j] = <<>>])

\* pick_next_task_dummy(rq): the head of the first queue that is not empty,
\* NoTask for NULL.
pick_next_task_dummy(qs) ==
    IF \A i \in Levels : qs[i] = <<>> THEN NoTask
    ELSE Head(qs[CHOOSE i \in Levels :
                    qs[i] # <<>> /\ \A j \in Levels : j < i => qs[j] = <<>>])

Store(s) ==
    \E v \in {s} :
        /\ queues' = v.queues
        /\ prio' = v.prio
        /\ time_slice' = v.time_slice
        /\ aging' = v.aging
        /\ nr_running' = v.nr_running
        /\ need_resched' = v.need_resched

\* The queue a task is linked on, -1 for none.
LevelOf(qs, t) ==
    IF \E i \in Levels : \E k \in 1..Len(qs[i]) : qs[i][k] = t
    THEN CHOOSE i \in Levels : \E k \in 1..Len(qs[i]) : qs[i][k] = t
    ELSE -1

\* u is linked before t on the same queue.
Ahead(qs, u, t) ==
    \E i \in Levels : \E k \in 1..Len(qs[i]) : \E m \in 1..Len(qs[i]) :
        qs[i][k] = u /\ qs[i][m] = t /\ k < m

\* The history of picks and expiries.  When pick_next_task_dummy returns
\* task t, passed[t] becomes the set of the other tasks on the queue t was
\* taken from and owed[t] is emptied; when the time slice of t runs out,
\* owed[t] becomes the set of the tasks ahead of t on its queue.  A picked
\* task leaves the sets of the other tasks, and in any step a task stays in
\* a set only as long as it and the owner of the set stay on their queue.
Logged(picked, expired) ==
    LET Stays(t) == LevelOf(queues, t) # -1 /\ LevelOf(queues', t) = LevelOf(queues, t)
        Kept(set, t) == IF Stays(t) THEN {u \in set \ {picked} : Stays(u)} ELSE {}
    IN  /\ passed' =
               [t \in Tasks |->
                   IF picked = t
                   THEN {u \in Tasks \ {t} : LevelOf(queues', u) = LevelOf(queues', t)}
                   ELSE Kept(passed[t], t)]
        /\ owed' =
               [t \in Tasks |->
                   IF picked = t THEN {}
                   ELSE IF expired = t THEN {u \in Tasks : Ahead(queues', u, t)}
                   ELSE Kept(owed[t], t)]

\* A task that is not queued becomes runnable: enqueue_task_dummy, then
\* check_preempt_curr_dummy for it.
enqueue_task_dummy(p) ==
    /\ ~Queued(RunQueue, p)
    /\ Store(check_preempt_curr(enqueue_task(RunQueue, p), p, curr))
    /\ Logged(NoTask, NoTask)
    /\ UNCHANGED <<volume, static_prio, curr>>

\* A queued task stops being runnable: dequeue_task_dummy; when it is the
\* running task the CPU is rescheduled.
dequeue_task_dummy(p) ==
    /\ Queued(RunQueue, p)
    /\ Store(IF p = curr THEN resched_task(dequeue_task(RunQueue, p), p)
             ELSE dequeue_task(RunQueue, p))
    /\ Logged(NoTask, NoTask)
    /\ UNCHANGED <<volume, static_prio, curr>>

\* yield_task_dummy(rq) for the running task, which sched_yield follows
\* with a reschedule.
yield_task_dummy ==
    /\ curr \in Tasks
    /\ Queued(RunQueue, curr)
    /\ LET s1 == dequeue_task(RunQueue, curr)
           s2 == IF s1.aging[curr] >= get_age_threshold
                 THEN [s1 EXCEPT !.aging[curr] = 0, !.prio[curr] = static_prio[curr]]
                 ELSE s1
       IN  Store(resched_task(enqueue_task(s2, curr), curr))
    /\ Logged(NoTask, NoTask)
    /\ UNCHANGED <<volume, static_prio, curr>>

\* task_tick_dummy(rq, curr, queued): the timer tick while a task of the
\* class runs.  A reschedule requested of the running task is carried out
\* on the way out of the timer interrupt, before the next tick.
task_tick_dummy ==
    /\ curr \in Tasks
    /\ curr \notin need_resched
    /\ Queued(RunQueue, curr)
    /\ Store(task_tick(RunQueue, curr, static_prio[curr]))
    /\ Logged(NoTask, IF time_slice[curr] + 1 >= get_timeslice THEN curr ELSE NoTask)
    /\ UNCHANGED <<volume, static_prio, curr>>

\* The reschedule requested of the running task: its flag is cleared and
\* pick_next_task_dummy names the task to run.
schedule ==
    /\ curr \in need_resched
    /\ curr' = pick_next_task_dummy(queues)
    /\ need_resched' = need_resched \ {curr}
    /\ UNCHANGED <<volume, queues, prio, static_prio, time_slice, aging,
                   nr_running>>
    /\ Logged(curr', NoTask)

-----------------------------------------------------------------------------
(* SpecSched: the run queue under every operation of the class.            *)
(* SpecRound: two tasks sharing a level while a task above sleeps and     *)
(* wakes.                                                                  *)
(* FairSpecSched: tasks that stay runnable, with ticks and reschedules.    *)

\* The volume code at rest.
VolumeIdle ==
    /\ boot = ChainBoot
    /\ dev_fat = ReservedFatEntries
    /\ dev_clusters = <<>>
    /\ Unmounted
    /\ WalkIdle
    /\ op = NoOp

\* Static priorities: the top, the middle and the bottom level.
StaticPrios ==
    {DUMMY_PRIO_UPPER_BOUND - 4, DUMMY_PRIO_UPPER_BOUND - 2, DUMMY_PRIO_UPPER_BOUND}

\* The queues after the tasks were enqueued in the order of TaskOrder.
QueuesOf(sp) ==
    LET AtLevel(i) ==
            LET OnLevel(t) == get_list_prio(sp[t]) = i
            IN  SelectSeq(TaskOrder, OnLevel)
    IN  [i \in Levels |-> AtLevel(i)]

\* Every task enqueued at its static priority, the idle task running and
\* asked to reschedule.
InitSched ==
    /\ VolumeIdle
    /\ static_prio \in [Tasks -> StaticPrios]
    /\ prio = static_prio
    /\ queues = QueuesOf(static_prio)
    /\ time_slice = [t \in Tasks |-> 0]
    /\ aging = [t \in Tasks |-> 0]
    /\ nr_running = Cardinality(Tasks)
    /\ curr = NoTask
    /\ need_resched = {NoTask}
    /\ passed = NothingPassed
    /\ owed = NothingPassed

NextSched ==
    \/ \E p \in Tasks : enqueue_task_dummy(p)
    \/ \E p \in Tasks : dequeue_task_dummy(p)
    \/ yield_task_dummy
    \/ task_tick_dummy
    \/ schedule

\* The last task on the bottom level and the others on the top level.
InitSchedTopBottom ==
    /\ InitSched
    /\ \A i \in DOMAIN TaskOrder :
           static_prio[TaskOrder[i]] =
               IF i = Len(TaskOrder) THEN DUMMY_PRIO_UPPER_BOUND
               ELSE DUMMY_PRIO_UPPER_BOUND - NBR_DUMMY_PRIO + 1

SpecSched == InitSchedTopBottom /\ [][NextSched]_vars

\* The first task on the top level and the others on the middle level.
InitRound ==
    /\ InitSched
    /\ \A i \in DOMAIN TaskOrder :
           static_prio[TaskOrder[i]] =
               IF i = 1 THEN DUMMY_PRIO_UPPER_BOUND - NBR_DUMMY_PRIO + 1
               ELSE DUMMY_PRIO_UPPER_BOUND - 2

\* The task of the top level sleeps and wakes; the others stay runnable,
\* run, yield and are ticked.
NextRound ==
    \/ enqueue_task_dummy(TaskOrder[1])
    \/ dequeue_task_dummy(TaskOrder[1])
    \/ yield_task_dummy
    \/ task_tick_dummy
    \/ schedule

SpecRound == InitRound /\ [][NextRound]_vars

NextRunnable ==
    \/ task_tick_dummy
    \/ schedule

\* The timer keeps ticking and a requested reschedule is carried out.
FairSpecSched ==
    /\ InitSched
    /\ [][NextRunnable]_vars
    /\ WF_vars(task_tick_dummy)
    /\ WF_vars(schedule)

-----------------------------------------------------------------------------
(* Claims about boot-sector validation (SpecBoot).                         *)

ValidationMsgs ==
    {"Invalid number of bytes per sector. Exiting...",
     "Invalid number of sectors per cluster. Exiting...",
     "Invalid cluster size. Exiting...",
     "Invalid FAT32 boot sector. Exiting...",
     "Reserved space of boot sector is not zero. Exiting...",
     "Invalid number of sectors for FAT32. Exiting..."}

\* vfat_init has run and the device could be opened.
BootSectorRead == mstate # "start" /\ exit_msg # "open"

Rejected == mstate = "exited" /\ exit_msg \in ValidationMsgs

ValidationPassed == BootSectorRead /\ ~Rejected

\* The checks the specification lists, on the fields themselves.
ListedChecksPass(b) ==
    /\ b.bytes_per_sector \in {512, 1024, 2048, 4096}
    /\ b.sectors_per_cluster \in {1, 2, 4, 8, 16, 32, 64, 128}
    /\ b.bytes_per_sector * b.sectors_per_cluster < 32768
    /\ b.fat_count = 2
    /\ b.root_max_entries = 0
    /\ b.total_sectors_small = 0
    /\ b.sectors_per_fat_small = 0
    /\ b.version = 0
    /\ b.signature = 43605
    /\ \A i \in DOMAIN b.reserved2 : b.reserved2[i] = 0

\* The cluster count in ordinary (unbounded) integer arithmetic.
OrdinaryClusterCount(b) ==
    (b.total_sectors - (b.reserved_sectors + b.sectors_per_fat * b.fat_count))
        \div b.sectors_per_cluster

\* C9: a boot sector failing any one of the listed checks is rejected by
\* vfat_init with an error exit, before any geometry is derived and before
\* the FAT is allocated or loaded; a sector passing the listed checks whose
\* cluster count is at least 65525 is accepted (fat_count is then 2), and
\* with fat_count = 1 it is rejected.
C9_BootValidation ==
    BootSectorRead =>
        /\ ~ListedChecksPass(boot) =>
               /\ Rejected
               /\ fat_begin = 0 /\ fat_size = 0
               /\ clusters_begin = 0 /\ clusters_size = 0
               /\ fat_content = NullFat
        /\ (ListedChecksPass(boot) /\ OrdinaryClusterCount(boot) >= 65525) =>
               ValidationPassed
        /\ (boot.fat_count = 1 /\ ListedChecksPass([boot EXCEPT !.fat_count = 2])) =>
               Rejected

\* The scenario of the specification: 512-byte sectors, 8 sectors a cluster,
\* 70000 clusters, rejected with one FAT.
C9_Witness ==
    /\ boot.bytes_per_sector = 512 /\ boot.sectors_per_cluster = 8
    /\ boot.total_sectors = 560232 /\ boot.sectors_per_fat = 100
    /\ boot.fat_count = 1
    /\ ListedChecksPass([boot EXCEPT !.fat_count = 2])
    /\ Rejected
    /\ fat_content = NullFat

\* C10: validation passes only if the cluster count computed in ordinary
\* integer arithmetic is at least 65525; a volume whose total_sectors is
\* smaller than reserved_sectors + sectors_per_fat * fat_count is rejected.
C10_ClusterCountOrdinary ==
    mstate = "mounted" => OrdinaryClusterCount(boot) >= 65525

\* A boot sector that is valid by the rules of the specification.
ValidBoot(b) == ListedChecksPass(b) /\ OrdinaryClusterCount(b) >= 65525

-----------------------------------------------------------------------------
(* Claims about the chain walker (SpecChain, FairSpecChain).               *)

\* The number of entries of the FAT table.
TableEntries == fat_size \div 4

\* The masked FAT entry of cluster n on the device.
NextCluster(n) ==
    (IF n < Len(dev_fat) THEN dev_fat[n + 1] ELSE 0) % 268435456

InTable(n) == 2 <= n /\ n < TableEntries

\* The chain from cluster n, by the specification's next(); -1 marks a
\* cluster outside the table or one already on the chain.
RECURSIVE ChainFrom(_, _)
ChainFrom(n, seen) ==
    IF ~InTable(n) \/ n \in seen THEN <<-1>>
    ELSE IF NextCluster(n) >= 268435448 THEN <<n>>
    ELSE <<n>> \o ChainFrom(NextCluster(n), seen \cup {n})

WellFormed(n) ==
    LET c == ChainFrom(n, {}) IN \A i \in 1..Len(c) : c[i] # -1

Visited == [i \in 1..Len(w_calls) |-> w_calls[i][1]]

\* C3: every walk that has entered the loop of follow_fat_chain leaves it.
C3_WalkTerminates == (w_pc = "loop") ~> (w_pc # "loop")

\* C4: every cluster number used to index the FAT table and handed to the
\* callback (which reads that data cluster) lies inside the table.
C4_IndexInTable == \A i \in 1..Len(w_calls) : InTable(w_calls[i][1])

\* C5: on a well-formed chain the callback is invoked once per cluster, in
\* chain order start, next(start), ..., next() being the entry with its upper
\* four bits masked off, and the walk ends after the first cluster whose
\* masked entry is at least 0xFFFFFF8.
C5_WalkFollowsChain ==
    (w_pc \in {"loop", "done"} /\ WellFormed(w_start)) =>
        LET c == ChainFrom(w_start, {})
        IN  /\ w_pc = "done" => Visited = c
            /\ w_pc = "loop" =>
                   /\ Len(w_calls) < Len(c)
                   /\ Visited = SubSeq(c, 1, Len(w_calls))
                   /\ w_offset = c[Len(w_calls) + 1]

\* A finished walk over three clusters, one of whose entries has bits set
\* among the upper four.
C5_Witness ==
    /\ w_pc = "done"
    /\ WellFormed(w_start)
    /\ Len(w_calls) = 3
    /\ \E i \in 1..3 : dev_fat[w_calls[i][1] + 1] >= 268435456

\* The byte counts handed to the callback, added up.
RECURSIVE HandedOut(_)
HandedOut(calls) ==
    IF calls = <<>> THEN 0 ELSE Head(calls)[2] + HandedOut(Tail(calls))

\* C18: each byte count n passed to the callback is at most the cluster size
\* and the counts of one walk add up to at most the size argument of the
\* call (0 for a directory), however long the well-formed chain walked.
C18_BytesWithinSize ==
    (w_pc \in {"loop", "done"} /\ WellFormed(w_start)) =>
        /\ \A i \in 1..Len(w_calls) : w_calls[i][2] <= clusters_size
        /\ HandedOut(w_calls) <= w_bytes

-----------------------------------------------------------------------------
(* Claims about directories and paths (SpecDir).  The specification's own  *)
(* decoder and resolver, sections 4.4 and 4.5, are written here from the   *)
(* device image; the directories of SpecDir are one cluster long.          *)

RECURSIVE StripTrailingSpaces(_)
StripTrailingSpaces(bytes) ==
    IF bytes # <<>> /\ bytes[Len(bytes)] = " "
    THEN StripTrailingSpaces(SubSeq(bytes, 1, Len(bytes) - 1))
    ELSE bytes

\* The 8.3 name: base and extension stripped of their padding, joined with a
\* dot when the extension is not empty.
SpecName(nameext) ==
    LET base == StripTrailingSpaces(SubSeq(nameext, 1, 8))
        ext == StripTrailingSpaces(SubSeq(nameext, 9, 11))
    IN  IF ext = <<>> THEN base ELSE base \o <<".">> \o ext

\* The index of the first record of a cluster that starts with 0x00.
FirstNul(buf) ==
    CHOOSE k \in 0..Len(buf) :
        /\ RecordAt(buf, k).nameext[1] = "NUL"
        /\ \A j \in 0..(k - 1) : RecordAt(buf, j).nameext[1] # "NUL"

\* The entries of the directory at cluster c: the records before the first
\* 0x00 record that are neither unused, nor long-name parts, nor volume ids.
SpecEntries(c) ==
    LET buf == IF c \in DOMAIN dev_clusters THEN dev_clusters[c] ELSE <<>>
        live == {k \in 0..(FirstNul(buf) - 1) :
                    /\ buf[k + 1].nameext[1] # "E5"
                    /\ buf[k + 1].attr % 16 # 15
                    /\ (buf[k + 1].attr \div 8) % 2 = 0
                    /\ (buf[k + 1].attr \div 64) % 4 = 0}
    IN  [k \in live |->
            [name |-> SpecName(buf[k + 1].nameext),
             cluster |-> buf[k + 1].cluster_hi * 65536 + buf[k + 1].cluster_lo,
             size |-> buf[k + 1].size,
             dir |-> (buf[k + 1].attr \div 16) % 2 = 1]]

\* The path split on "/", empty components dropped.
RECURSIVE Components(_)
Components(path) ==
    IF path = <<>> THEN <<>>
    ELSE IF Head(path) = "/" THEN Components(Tail(path))
    ELSE LET n == IF \E i \in 1..Len(path) : path[i] = "/"
                  THEN (CHOOSE i \in 1..Len(path) :
                            path[i] = "/" /\ \A j \in 1..(i - 1) : path[j] # "/") - 1
                  ELSE Len(path)
         IN  <<SubSeq(path, 1, n)>> \o Components(SubSeq(path, n + 1, Len(path)))

NotFound == [found |-> FALSE, cluster |-> 0, size |-> 0, dir |-> FALSE]

RECURSIVE SpecWalk(_, _)
SpecWalk(comps, cur) ==
    IF comps = <<>> THEN cur
    ELSE IF ~cur.dir THEN NotFound
    ELSE LET es == SpecEntries(cur.cluster)
             hits == {k \in DOMAIN es : es[k].name = Head(comps)}
         IN  IF hits = {} THEN NotFound
             ELSE LET first == es[CHOOSE k \in hits : \A j \in hits : k <= j]
                  IN  SpecWalk(Tail(comps),
                               [found |-> TRUE, cluster |-> first.cluster,
                                size |-> first.size, dir |-> first.dir])

SpecResolve(path) ==
    SpecWalk(Components(path),
             [found |-> TRUE, cluster |-> boot.root_cluster, size |-> 0, dir |-> TRUE])

\* strchr searched for the separator in every call, as the code intends.
IntendedSeps(seps) == \A d \in DOMAIN seps : seps[d] = "/"

Returned(name) == op.name = name /\ op.outcome = "returned"

\* C1: resolving a path of two or more components, one of which has no
\* matching entry in the directory reached so far, reports not-found.
C1_MissingComponentNotFound ==
    (/\ Returned("vfat_resolve")
     /\ IntendedSeps(op.seps)
     /\ Len(Components(op.path)) >= 2
     /\ ~SpecResolve(op.path).found)
        => op.ret = 0

\* C2: when the component of a one-component path matches an entry of the
\* root directory, the location resolved is the first cluster of the first
\* matching entry, whatever entries follow it.
C2_FirstMatchLocation ==
    (/\ Returned("vfat_resolve")
     /\ IntendedSeps(op.seps)
     /\ Len(Components(op.path)) = 1
     /\ SpecResolve(op.path).found)
        => op.first_cluster = SpecResolve(op.path).cluster

\* C6: vfat_readdir passes no record at or after the first record starting
\* with 0x00 to the filler.
C6_NulEndsDecoding ==
    op.name = "vfat_readdir" =>
        \A i \in 1..Len(op.calls) :
            op.calls[i].index < FirstNul(read_cluster(op.cluster))

\* The bytes [offs, offs + len) of the file of sz bytes whose chain starts at
\* cluster fc.
ExpectedRead(fc, sz, offs, len) ==
    LET chain == ChainFrom(fc, {})
        n == IF offs >= sz THEN 0 ELSE Min(len, sz - offs)
    IN  [i \in 1..n |->
            DataByte(chain[((offs + i - 1) \div clusters_size) + 1],
                     (offs + i - 1) % clusters_size)]

\* C7: a read of a file returns the bytes of the requested range, taken from
\* the file's cluster chain in chain order, and 0 bytes from offset >= size.
C7_ReadReturnsFileBytes ==
    (/\ Returned("read")
     /\ SpecResolve(op.path).found
     /\ ~SpecResolve(op.path).dir)
        => LET f == SpecResolve(op.path)
               expected == ExpectedRead(f.cluster, f.size, op.offs, op.size)
           IN  /\ op.ret = Len(expected)
               /\ SubSeq(op.buf, 1, op.ret) = expected

\* C8: vfat_fuse_getattr on a path that does not resolve returns an error,
\* and vfat_fuse_readdir on a path that does not resolve to a directory
\* returns an error and emits nothing but "." and "..".
C8_NotFoundReported ==
    /\ (op.name = "getattr" /\ ~SpecResolve(op.path).found) => op.ret # 0
    /\ (/\ Returned("readdir")
        /\ IntendedSeps(op.seps)
        /\ ~(SpecResolve(op.path).found /\ SpecResolve(op.path).dir))
           => (op.ret # 0 /\ Len(op.listing) <= 2)

\* C11: the name vfat_readdir passes to the filler for a short-name record is
\* the 8-byte base and the 3-byte extension, each stripped of its trailing
\* spaces only, joined with a dot exactly when the extension is not empty
\* ("A       TXT" is "A.TXT", "SUB        " is "SUB").
C11_ShortNameDecoding ==
    op.name = "vfat_readdir" =>
        \A i \in 1..Len(op.calls) :
            op.calls[i].index < FirstNul(read_cluster(op.cluster)) =>
                op.calls[i].name =
                    SpecName(RecordAt(read_cluster(op.cluster),
                                      op.calls[i].index).nameext)

\* The cluster at c holds a record in every slot: the directory goes on in
\* the next cluster of its chain.
FullDirCluster(c) ==
    /\ c \in DOMAIN dev_clusters
    /\ Len(dev_clusters[c]) * 32 = clusters_size
    /\ \A k \in 1..Len(dev_clusters[c]) : dev_clusters[c][k].nameext[1] # "NUL"

\* C12: listing a directory whose chain has two or more clusters passes the
\* entries stored in the clusters after the first to the visitor too.
C12_WholeChainListed ==
    (/\ op.name = "vfat_readdir"
     /\ WellFormed(op.cluster)
     /\ Len(ChainFrom(op.cluster, {})) >= 2
     /\ FullDirCluster(op.cluster))
        => LET later == SpecEntries(ChainFrom(op.cluster, {})[2])
           IN  \A k \in DOMAIN later :
                   \E i \in 1..Len(op.calls) : op.calls[i].name = later[k].name

\* How many components of comps the specification's resolver matches from
\* the directory at cluster before it meets a regular file with components
\* left over; 0 when it meets none.
RECURSIVE FileAsIntermediate(_, _, _)
FileAsIntermediate(comps, cluster, depth) ==
    IF Len(comps) < 2 THEN 0
    ELSE LET es == SpecEntries(cluster)
             hits == {k \in DOMAIN es : es[k].name = Head(comps)}
         IN  IF hits = {} THEN 0
             ELSE LET first == es[CHOOSE k \in hits : \A j \in hits : k <= j]
                  IN  IF ~first.dir THEN depth
                      ELSE FileAsIntermediate(Tail(comps), first.cluster, depth + 1)

\* C13: when a component that is not the last one matches a regular file,
\* vfat_resolve reports not-found and reads no cluster as a directory after
\* the directory that holds the file.
C13_IntermediateMustBeDir ==
    (/\ Returned("vfat_resolve")
     /\ IntendedSeps(op.seps)
     /\ FileAsIntermediate(Components(op.path), boot.root_cluster, 1) > 0)
        => /\ op.ret = 0
           /\ Len(op.scanned)
                  <= FileAsIntermediate(Components(op.path), boot.root_cluster, 1)

\* The record of the device that a filler call of vfat_readdir was made for
\* (a zero record past the records of the cluster).
ListedRecord(i) ==
    RecordAt(read_cluster(op.cluster), op.calls[i].index)

\* C14: vfat_readdir passes no record with the volume-id bit or one of the
\* invalid-attribute bits set to the filler.
C14_NoVolumeIdOrInvalidListed ==
    op.name = "vfat_readdir" =>
        \A i \in 1..Len(op.calls) :
            /\ (ListedRecord(i).attr \div 8) % 2 = 0
            /\ (ListedRecord(i).attr \div 64) % 4 = 0

\* C15: vfat_readdir passes no record starting with 0xE5 and no long-name
\* part to the filler, and goes on with the record after it: every entry of
\* the cluster before the first 0x00 record is passed, whatever unused
\* records and long-name parts come before it.
C15_UnusedAndLfnSkipped ==
    op.name = "vfat_readdir" =>
        /\ \A i \in 1..Len(op.calls) :
               /\ ListedRecord(i).nameext[1] # "E5"
               /\ ListedRecord(i).attr % 16 # 15
        /\ \A k \in DOMAIN SpecEntries(op.cluster) :
               \E i \in 1..Len(op.calls) : op.calls[i].index = k

\* The directory OTHER listed: the entry after the unused record and the
\* long-name part is there, they are not.
C15_Witness ==
    /\ op.name = "vfat_readdir"
    /\ op.cluster = 4
    /\ read_cluster(4)[3].nameext[1] = "E5"
    /\ read_cluster(4)[4].attr = 15
    /\ op.listing = << <<".">>, <<".", ".">>, <<"N", "O", "T", "E", "S">> >>

\* C19: every record offset vfat_readdir examines while scanning a cluster is
\* below the cluster size; the scan of a cluster with no 0x00 record stops at
\* the end of the buffer.
C19_OffsetInsideCluster ==
    op.name = "vfat_readdir" => op.examined * 32 < clusters_size

-----------------------------------------------------------------------------
(* Claims about the volume state as a whole (SpecFrame).                   *)

-----------------------------------------------------------------------------
(* Claims about the scheduling class (SpecSched, SpecRound, FairSpecSched). *)

\* C20: with ticks occurring forever and tasks that stay runnable, every
\* task is returned by pick_next_task_dummy again and again, whatever the
\* levels of the other tasks.
C20_EveryTaskPicked == \A t \in Tasks : []<>(curr = t)

\* A task of the bottom level has been aged up to the top level and picked
\* while a task whose static level is the top one is runnable.
C20_Witness ==
    \E t \in Tasks, u \in Tasks :
        /\ static_prio[t] = DUMMY_PRIO_UPPER_BOUND
        /\ prio[t] = DUMMY_PRIO_UPPER_BOUND - 4
        /\ curr = t
        /\ static_prio[u] = DUMMY_PRIO_UPPER_BOUND - 4

\* A step in which the reschedule requested of the running task is carried
\* out: the only step that takes a task out of need_resched.
Rescheduled ==
    /\ need_resched' # need_resched
    /\ need_resched' \subseteq need_resched

\* C21: the task a reschedule picks is the head of a queue that is not empty
\* while every queue of lower index is empty; no task (NULL) is picked
\* exactly when all NBR_DUMMY_PRIO queues are empty; and picking changes no
\* queue.
C21_PickHeadOfFirstQueue ==
    [][Rescheduled =>
          /\ queues' = queues
          /\ (curr' = NoTask) <=> (\A i \in Levels : Len(queues[i]) = 0)
          /\ curr' # NoTask =>
                 \E i \in Levels :
                     /\ Len(queues[i]) > 0
                     /\ curr' = queues[i][1]
                     /\ \A j \in 0..(i - 1) : Len(queues[j]) = 0]_vars

\* With the tasks of the top level taken off, the task that was promoted
\* from the bottom level is picked from a queue below the top one.
C21_Witness ==
    \E i \in Levels :
        /\ 0 < i /\ i < NBR_DUMMY_PRIO - 1
        /\ curr \in Tasks
        /\ curr \notin need_resched
        /\ \A k \in 0..(i - 1) : queues[k] = <<>>
        /\ queues[i] # <<>> /\ Head(queues[i]) = curr
        /\ nr_running = 1

\* A step of task_tick_dummy: the only step that counts a tick of a time
\* slice.
TickStep ==
    /\ curr \in Tasks
    /\ curr' = curr
    /\ time_slice' # time_slice

\* The tick on which the time slice of the running task runs out.
ExpiryTick == TickStep /\ time_slice[curr] + 1 >= get_timeslice

PrioBounds ==
    \A t \in Tasks :
        /\ DUMMY_PRIO_UPPER_BOUND - NBR_DUMMY_PRIO + 1 <= prio[t]
        /\ prio[t] <= static_prio[t]
        /\ get_list_prio(prio[t]) \in 0..(NBR_DUMMY_PRIO - 1)

\* C23: every task has top-level priority <= prio <= static_prio, so that
\* get_list_prio of it is a queue index 0..NBR_DUMMY_PRIO-1 (aging promotes
\* no task above the top level), and the tick on which the time slice runs
\* out leaves the running task at its static priority.
C23_PrioWithinLevels ==
    [][/\ PrioBounds
       /\ PrioBounds'
       /\ ExpiryTick => prio'[curr] = static_prio[curr]]_vars

\* A task whose static level is below the top one has been promoted up to
\* the top level and is queued there with every other task.
C23_Witness ==
    \E t \in Tasks :
        /\ static_prio[t] > DUMMY_PRIO_UPPER_BOUND - NBR_DUMMY_PRIO + 1
        /\ prio[t] = DUMMY_PRIO_UPPER_BOUND - NBR_DUMMY_PRIO + 1
        /\ Queued(RunQueue, t)
        /\ time_slice[t] = 0
        /\ nr_running = Cardinality(Tasks)

\* The tick on which the time slice of the running task runs out puts the
\* task behind the tasks on the queue of its static priority, sets its
\* time_slice to 0 and requests its reschedule.
ExpiryRequeues ==
    ExpiryTick =>
        /\ time_slice'[curr] = 0
        /\ curr \in need_resched'
        /\ LevelOf(queues', curr) = get_list_prio(static_prio[curr])
        /\ \A u \in Tasks \ {curr} :
               LevelOf(queues, u) = LevelOf(queues', curr) =>
                   ~Ahead(queues', curr, u)

QueuedTasks(qs) == {qs[i][k] : <<i, k>> \in {x \in Levels \X (1..Cardinality(Tasks)) : x[2] <= Len(qs[x[1]])}}

QueuedTotal(qs) ==
    LET RECURSIVE From(_)
        From(i) == IF i >= NBR_DUMMY_PRIO THEN 0 ELSE Len(qs[i]) + From(i + 1)
    IN  From(0)

\* Every task is linked at most once, on the queue of its prio, and
\* nr_running counts the links.
Consistent(qs, pr, nr) ==
    /\ \A i \in Levels : Len(qs[i]) <= Cardinality(Tasks)
    /\ QueuedTotal(qs) = Cardinality(QueuedTasks(qs))
    /\ \A i \in Levels : \A k \in 1..Len(qs[i]) : get_list_prio(pr[qs[i][k]]) = i
    /\ nr = QueuedTotal(qs)

\* A step of yield_task_dummy or task_tick_dummy: the running task stays the
\* running task and time_slice or a queue changes, while no task enters or
\* leaves the set of queued tasks.
RequeueStep ==
    /\ curr' = curr
    /\ time_slice' # time_slice \/ queues' # queues
    /\ QueuedTasks(queues') = QueuedTasks(queues)

\* C24: every task is on at most one queue and at most once, a queued task
\* is on the queue of index get_list_prio of its prio, nr_running is the
\* number of tasks on all the queues, and a yield or a tick leaves nr_running
\* as it was.
C24_RunQueueConsistent ==
    [][/\ Consistent(queues, prio, nr_running)
       /\ Consistent(queues', prio', nr_running')
       /\ RequeueStep => nr_running' = nr_running]_vars

\* With one task taken off, a task promoted above its static level shares a
\* queue with the other one and is behind it.
C24_Witness ==
    \E t \in Tasks, u \in Tasks, i \in Levels :
        /\ t # u
        /\ prio[t] < static_prio[t]
        /\ get_list_prio(prio[t]) = i
        /\ Len(queues[i]) = 2
        /\ queues[i][1] = u /\ queues[i][2] = t
        /\ nr_running = 2

====
